---- MODULE Spec2Model ----
(***************************************************************************)
(* Model of async-utils: AsyncLock (a mutex built as a chain of promises)  *)
(* and AsyncEvent (a level-triggered broadcast signal), together with the  *)
(* host's promise reactions and its FIFO microtask queue.                  *)
(*                                                                         *)
(* Promises of the lock are numbered: 0 is the initial Promise.resolve()   *)
(* of the field #awaitable, k is the promise made by acquirer k's call of  *)
(* Promise.withResolvers().                                                *)
(***************************************************************************)
EXTENDS Integers, Sequences, FiniteSets, TLC

\* number of tasks that call acquire() (each once)
NumAcquirers == 3
\* how many times one handle's release() may be called
MaxReleases == 2
\* number of wait() calls
NumWaits == 3
\* number of set() calls
MaxSets == 2

Acquirers == 1..NumAcquirers
Promises == 0..NumAcquirers
Waits == 1..NumWaits
NoPromise == -1

VARIABLES
    \* AsyncLock
    locked,        \* #locked
    awaitable,     \* #awaitable: the promise at the tail of the chain
    settled,       \* the promises of the chain that are resolved
    reactions,     \* per promise, the acquirers suspended on it, in order
    previousAwaitable, \* per acquirer, the tail it captured
    pc,            \* per acquirer: "idle", "awaiting", "granted", "resumed"
    relCount,      \* per acquirer, calls of its handle's release()
    issueOrder,    \* history: acquirers in the order of their synchronous prefix
    grantOrder,    \* history: acquirers in the order acquire() resolved
    raced,         \* history: acquirers issued while locked was false and another was pending
    issuedFree,    \* history: acquirers whose captured tail was resolved when captured
    lastCall,      \* history: the member the release closure was last called by: "none", "release", "dispose"
    \* AsyncEvent
    isSet,         \* #isSet
    waitResolvers, \* #waitResolvers: the waits whose resolver is registered
    wstate,        \* per wait(): "idle", "pending", "resolved", "resumed"
    wakeCount,     \* per wait(), how often its resolver was called
    setCount,      \* history: number of set() calls so far
    setsWhileSet,  \* history: number of set() calls that found isSet true
    issuedAt,      \* history: per wait(), setCount when it was issued
    wokenAt,       \* history: per wait(), setCount when its promise resolved
    fastPath,      \* history: the waits that returned Promise.resolve()
    regOrder,      \* history: waits in the order they registered a resolver
    wakeOrder,     \* history: waits in the order set() called their resolver
    resumeOrder,   \* history: waits in the order their awaiter resumed
    ctorArg,       \* history: the constructor's argument: "undefined", "false", "true"
    lastLevelOp,   \* history: the most recent of set() and clear(): "none", "set", "clear"
    lastOp,        \* history: the most recent step: "none", "wait", "set", "clear", "resume"
    reentrant,     \* history: the pairs <<w, v>> with wait() v issued by the continuation of wait() w
    \* host
    jobs           \* the microtask queue

lockVars == <<locked, awaitable, settled, reactions, previousAwaitable, pc,
              relCount, issueOrder, grantOrder, raced, issuedFree, lastCall>>
eventVars == <<isSet, waitResolvers, wstate, wakeCount, setCount, setsWhileSet, issuedAt,
               wokenAt, fastPath, regOrder, wakeOrder, resumeOrder, ctorArg,
               lastLevelOp, lastOp, reentrant>>
vars == <<lockVars, eventVars, jobs>>

AcquireJob(k) == [kind |-> "acquire", id |-> k]
CallerJob(k) == [kind |-> "caller", id |-> k]
WaiterJob(w) == [kind |-> "waiter", id |-> w]

\* the jobs queued, in order, for the acquirers or waits of a sequence
AcquireJobs(s) == [i \in 1..Len(s) |-> AcquireJob(s[i])]
WaiterJobs(s) == [i \in 1..Len(s) |-> WaiterJob(s[i])]

Range(s) == {s[i] : i \in 1..Len(s)}
IsPrefix(s, t) == Len(s) <= Len(t) /\ \A i \in 1..Len(s) : s[i] = t[i]
Index(s, x) == CHOOSE i \in 1..Len(s) : s[i] = x

Init ==
    /\ locked = FALSE
    /\ awaitable = 0
    /\ settled = {0}
    /\ reactions = [p \in Promises |-> <<>>]
    /\ previousAwaitable = [k \in Acquirers |-> NoPromise]
    /\ pc = [k \in Acquirers |-> "idle"]
    /\ relCount = [k \in Acquirers |-> 0]
    /\ issueOrder = <<>>
    /\ grantOrder = <<>>
    /\ raced = {}
    /\ issuedFree = {}
    /\ lastCall = "none"
    /\ ctorArg \in {"undefined", "false", "true"}
    /\ isSet = (ctorArg = "true")
    /\ lastLevelOp = "none"
    /\ lastOp = "none"
    /\ reentrant = {}
    /\ waitResolvers = <<>>
    /\ wstate = [w \in Waits |-> "idle"]
    /\ wakeCount = [w \in Waits |-> 0]
    /\ setCount = 0
    /\ setsWhileSet = 0
    /\ issuedAt = [w \in Waits |-> 0]
    /\ wokenAt = [w \in Waits |-> 0]
    /\ fastPath = {}
    /\ regOrder = <<>>
    /\ wakeOrder = <<>>
    /\ resumeOrder = <<>>
    /\ jobs = <<>>

(***************************************************************************)
(* AsyncLock                                                               *)
(***************************************************************************)

\* acquire(), up to and including its suspension at `await previousAwaitable`,
\* with `tail` the promise installed as the new #awaitable
AcquirePrefix(k, tail) ==
    /\ pc[k] = "idle"
    /\ previousAwaitable' = [previousAwaitable EXCEPT ![k] = awaitable]
    /\ awaitable' = tail
    /\ IF awaitable \in settled
         THEN /\ jobs' = Append(jobs, AcquireJob(k))
              /\ UNCHANGED reactions
         ELSE /\ reactions' = [reactions EXCEPT ![awaitable] = Append(@, k)]
              /\ UNCHANGED jobs
    /\ pc' = [pc EXCEPT ![k] = "awaiting"]
    /\ issueOrder' = Append(issueOrder, k)
    /\ raced' = IF ~locked /\ \E j \in Acquirers : pc[j] = "awaiting"
                  THEN raced \cup {k} ELSE raced
    /\ issuedFree' = IF awaitable \in settled THEN issuedFree \cup {k} ELSE issuedFree
    /\ UNCHANGED <<locked, settled, relCount, grantOrder, lastCall, eventVars>>

\* a slip: the captured tail is not replaced by the caller's own promise
AcquireKeepTail(k) == AcquirePrefix(k, awaitable)

Acquire(k) == AcquirePrefix(k, k)

\* a slip: the continuation does not mark the lock held
ResumeAcquireNoFlag(k) ==
    /\ jobs # <<>>
    /\ Head(jobs) = AcquireJob(k)
    /\ pc' = [pc EXCEPT ![k] = "granted"]
    /\ grantOrder' = Append(grantOrder, k)
    /\ jobs' = Append(Tail(jobs), CallerJob(k))
    /\ UNCHANGED <<locked, awaitable, settled, reactions, previousAwaitable,
                   relCount, issueOrder, raced, issuedFree, lastCall, eventVars>>

\* the rest of acquire(), run as a microtask once previousAwaitable is resolved
ResumeAcquire(k) ==
    /\ jobs # <<>>
    /\ Head(jobs) = AcquireJob(k)
    /\ locked' = TRUE
    /\ pc' = [pc EXCEPT ![k] = "granted"]
    /\ grantOrder' = Append(grantOrder, k)
    /\ jobs' = Append(Tail(jobs), CallerJob(k))
    /\ UNCHANGED <<awaitable, settled, reactions, previousAwaitable, relCount,
                   issueOrder, raced, issuedFree, lastCall, eventVars>>

\* the caller's `await lock.acquire()` resumes with the handle
ResumeCaller(k) ==
    /\ jobs # <<>>
    /\ Head(jobs) = CallerJob(k)
    /\ pc' = [pc EXCEPT ![k] = "resumed"]
    /\ jobs' = Tail(jobs)
    /\ UNCHANGED <<locked, awaitable, settled, reactions, previousAwaitable,
                   relCount, issueOrder, grantOrder, raced, issuedFree, lastCall,
                   eventVars>>

\* the closure `release` of acquirer k, resolving promise p
ReleaseLink(k, p) ==
    /\ pc[k] = "resumed"
    /\ relCount[k] < MaxReleases
    /\ locked' = FALSE
    /\ IF p \in settled
         THEN UNCHANGED <<settled, reactions, jobs>>
         ELSE /\ settled' = settled \cup {p}
              /\ jobs' = jobs \o AcquireJobs(reactions[p])
              /\ reactions' = [reactions EXCEPT ![p] = <<>>]
    /\ relCount' = [relCount EXCEPT ![k] = @ + 1]
    /\ UNCHANGED <<awaitable, previousAwaitable, pc, issueOrder, grantOrder,
                   raced, issuedFree, eventVars>>

\* the handle acquire() returns to acquirer k: each member holds a closure,
\* named by the link that closure resolves
Handle(k) == [release |-> k, dispose |-> k]

\* a slip: release resolves the link at the tail, not the caller's own
ReleaseTail(k) == ReleaseLink(k, awaitable) /\ lastCall' = "release"

\* a slip: release clears the flag and resolves nothing
ReleaseNoResolve(k) == ReleaseLink(k, 0) /\ lastCall' = "release"

\* handle.release()
Release(k) == ReleaseLink(k, Handle(k).release) /\ lastCall' = "release"

\* a slip: the scope-exit member clears the flag and resolves nothing
DisposeNoResolve(k) == ReleaseLink(k, 0) /\ lastCall' = "dispose"

\* handle[Symbol.dispose](), called when a `using` scope exits
Dispose(k) == ReleaseLink(k, Handle(k).dispose) /\ lastCall' = "dispose"

LockNext ==
    \/ \E k \in Acquirers : Acquire(k)
    \/ \E k \in Acquirers : ResumeAcquire(k)
    \/ \E k \in Acquirers : ResumeCaller(k)
    \/ \E k \in Acquirers : Release(k)
    \/ \E k \in Acquirers : Dispose(k)

LockSpec == Init /\ [][LockNext]_vars

(***************************************************************************)
(* AsyncEvent                                                              *)
(***************************************************************************)

\* wait(), with `set` the value the test of #isSet yields; the caller awaits
\* the returned promise
WaitIf(w, set) ==
    /\ wstate[w] = "idle"
    /\ issuedAt' = [issuedAt EXCEPT ![w] = setCount]
    /\ IF set
         THEN /\ wstate' = [wstate EXCEPT ![w] = "resolved"]
              /\ jobs' = Append(jobs, WaiterJob(w))
              /\ fastPath' = fastPath \cup {w}
              /\ UNCHANGED <<waitResolvers, regOrder>>
         ELSE /\ waitResolvers' = Append(waitResolvers, w)
              /\ wstate' = [wstate EXCEPT ![w] = "pending"]
              /\ regOrder' = Append(regOrder, w)
              /\ UNCHANGED <<jobs, fastPath>>
    /\ lastOp' = "wait"
    /\ UNCHANGED <<isSet, wakeCount, setCount, setsWhileSet, wokenAt,
                   wakeOrder, resumeOrder, ctorArg, lastLevelOp, reentrant,
                   lockVars>>

\* a slip: wait() registers a resolver whatever the level
WaitAlwaysRegister(w) == WaitIf(w, FALSE)

Wait(w) == WaitIf(w, isSet)

\* the state a drain of the resolvers works on
DrainState ==
    [q |-> waitResolvers, wstate |-> wstate, wakeCount |-> wakeCount,
     wokenAt |-> wokenAt, wakeOrder |-> wakeOrder, jobs |-> jobs]

\* resolve(): the resolver of wait() w is called during call number n of set()
Resolve(w, n, st) ==
    LET called == [st EXCEPT !.wakeCount[w] = @ + 1,
                             !.wakeOrder = Append(@, w)]
    IN  IF st.wstate[w] = "pending"
          THEN [called EXCEPT !.wstate[w] = "resolved",
                              !.wokenAt[w] = n,
                              !.jobs = Append(@, WaiterJob(w))]
          ELSE called

\* a slip: only the first resolver is taken and called
DrainOne(n, st) ==
    IF st.q = <<>>
      THEN st
      ELSE Resolve(Head(st.q), n, [st EXCEPT !.q = Tail(st.q)])

\* a slip: the resolvers are taken with pop(), from the end
RECURSIVE DrainPop(_, _)
DrainPop(n, st) ==
    IF st.q = <<>>
      THEN st
      ELSE DrainPop(n, Resolve(st.q[Len(st.q)], n,
                               [st EXCEPT !.q = SubSeq(@, 1, Len(@) - 1)]))

\* a slip: the resolvers are called and left in the list
RECURSIVE CallAll(_, _)
CallAll(n, st) ==
    IF st.q = <<>>
      THEN st
      ELSE CallAll(n, Resolve(Head(st.q), n, [st EXCEPT !.q = Tail(st.q)]))
DrainKeep(n, st) == [CallAll(n, st) EXCEPT !.q = st.q]

\* the loop of set(): shift() a resolver and call it, until shift() yields
\* undefined
RECURSIVE Drain(_, _)
Drain(n, st) ==
    IF st.q = <<>>
      THEN st
      ELSE Drain(n, Resolve(Head(st.q), n, [st EXCEPT !.q = Tail(st.q)]))

\* the state after a drain
Drained(st) ==
    /\ waitResolvers' = st.q
    /\ wstate' = st.wstate
    /\ wakeCount' = st.wakeCount
    /\ wokenAt' = st.wokenAt
    /\ wakeOrder' = st.wakeOrder
    /\ jobs' = st.jobs

Set ==
    /\ setCount < MaxSets
    /\ isSet' = TRUE
    /\ setCount' = setCount + 1
    /\ setsWhileSet' = IF isSet THEN setsWhileSet + 1 ELSE setsWhileSet
    /\ Drained(Drain(setCount + 1, DrainState))
    /\ lastLevelOp' = "set"
    /\ lastOp' = "set"
    /\ UNCHANGED <<issuedAt, fastPath, regOrder, resumeOrder, ctorArg,
                   reentrant, lockVars>>

\* a slip: clear() also calls the registered resolvers
ClearAndWake ==
    /\ isSet' = FALSE
    /\ Drained(Drain(setCount, DrainState))
    /\ lastLevelOp' = "clear"
    /\ lastOp' = "clear"
    /\ UNCHANGED <<setCount, setsWhileSet, issuedAt, fastPath, regOrder,
                   resumeOrder, ctorArg, reentrant, lockVars>>

\* a slip: clear() flips the level
ClearToggle ==
    /\ isSet' = ~isSet
    /\ lastLevelOp' = "clear"
    /\ lastOp' = "clear"
    /\ UNCHANGED <<waitResolvers, wstate, wakeCount, setCount, setsWhileSet,
                   issuedAt, wokenAt, fastPath, regOrder, wakeOrder,
                   resumeOrder, ctorArg, reentrant, jobs, lockVars>>

Clear ==
    /\ isSet' = FALSE
    /\ lastLevelOp' = "clear"
    /\ lastOp' = "clear"
    /\ UNCHANGED <<waitResolvers, wstate, wakeCount, setCount, setsWhileSet,
                   issuedAt, wokenAt, fastPath, regOrder, wakeOrder,
                   resumeOrder, ctorArg, reentrant, jobs, lockVars>>

\* the caller's `await event.wait()` resumes, run as a microtask
ResumeWaiter(w) ==
    /\ jobs # <<>>
    /\ Head(jobs) = WaiterJob(w)
    /\ wstate' = [wstate EXCEPT ![w] = "resumed"]
    /\ resumeOrder' = Append(resumeOrder, w)
    /\ jobs' = Tail(jobs)
    /\ lastOp' = "resume"
    /\ UNCHANGED <<isSet, waitResolvers, wakeCount, setCount, setsWhileSet,
                   issuedAt, wokenAt, fastPath, regOrder, wakeOrder, ctorArg,
                   lastLevelOp, reentrant, lockVars>>

\* the caller's `await event.wait()` resumes and its continuation calls
\* wait() again, as call v, before yielding; `set` is what the test of #isSet
\* in that call yields
ResumeWaiterAndWaitIf(w, v, set) ==
    /\ jobs # <<>>
    /\ Head(jobs) = WaiterJob(w)
    /\ wstate[v] = "idle"
    /\ resumeOrder' = Append(resumeOrder, w)
    /\ issuedAt' = [issuedAt EXCEPT ![v] = setCount]
    /\ reentrant' = reentrant \cup {<<w, v>>}
    /\ IF set
         THEN /\ wstate' = [wstate EXCEPT ![w] = "resumed", ![v] = "resolved"]
              /\ jobs' = Append(Tail(jobs), WaiterJob(v))
              /\ fastPath' = fastPath \cup {v}
              /\ UNCHANGED <<waitResolvers, regOrder>>
         ELSE /\ waitResolvers' = Append(waitResolvers, v)
              /\ wstate' = [wstate EXCEPT ![w] = "resumed", ![v] = "pending"]
              /\ regOrder' = Append(regOrder, v)
              /\ jobs' = Tail(jobs)
              /\ UNCHANGED fastPath
    /\ lastOp' = "wait"
    /\ UNCHANGED <<isSet, wakeCount, setCount, setsWhileSet, wokenAt,
                   wakeOrder, ctorArg, lastLevelOp, lockVars>>

\* a slip: the second wait() registers a resolver whatever the level
ReentrantAlwaysRegister(w, v) == ResumeWaiterAndWaitIf(w, v, FALSE)

ResumeWaiterAndWait(w, v) == ResumeWaiterAndWaitIf(w, v, isSet)

EventNext ==
    \/ \E w \in Waits : Wait(w)
    \/ Set
    \/ Clear
    \/ \E w \in Waits : ResumeWaiter(w)
    \/ \E w, v \in Waits : ResumeWaiterAndWait(w, v)

EventSpec == Init /\ [][EventNext]_vars

Woken(w) == wstate[w] \in {"resolved", "resumed"}
SetStep == setCount' = setCount + 1
\* a step that changes the state and was a call of clear(), of wait()
ClearStep == lastOp' = "clear"
WaitStep == lastOp' = "wait"

\* the first release() of a handle the caller has received
FirstRelease(k) == relCount[k] = 0 /\ Release(k)

\* microtasks are run as long as there are any, and every holder releases
LockFairSpec ==
    /\ Init
    /\ [][LockNext]_vars
    /\ \A k \in Acquirers : WF_vars(ResumeAcquire(k))
    /\ \A k \in Acquirers : WF_vars(ResumeCaller(k))
    /\ \A k \in Acquirers : WF_vars(FirstRelease(k))

Granted(k) == pc[k] \in {"granted", "resumed"}
\* acquirer k is between the resolution of its acquire() and its release()
Holding(k) == Granted(k) /\ relCount[k] = 0
Holders == {k \in Acquirers : Holding(k)}
IssuedBefore(j, k) ==
    /\ j \in Range(issueOrder)
    /\ k \in Range(issueOrder)
    /\ Index(issueOrder, j) < Index(issueOrder, k)

(***************************************************************************)
(* Properties of AsyncEvent                                                *)
(***************************************************************************)

SlowPath(w) == w \in Range(regOrder)

\* C5: between operations, whenever isSet is true the waiter list is empty.
SetImpliesNoWaiters == isSet => waitResolvers = <<>>

\* the event is set and a wait() that had registered a resolver was drained
SetImpliesNoWaitersWitness ==
    /\ isSet
    /\ \E w \in Waits : SlowPath(w) /\ Woken(w)

\* C6: one set() call resolves every wait() suspended at that moment and
\* leaves the waiter list empty.
BroadcastCompleteness ==
    [][SetStep =>
         /\ waitResolvers' = <<>>
         /\ \A w \in Waits : wstate[w] = "pending" => wstate'[w] = "resolved"]_vars

\* all the waits were suspended and the first set() resolved them all
BroadcastCompletenessWitness ==
    /\ NumWaits >= 2
    /\ \A w \in Waits : SlowPath(w) /\ Woken(w) /\ wokenAt[w] = 1

\* C7: a wait() called while isSet is true is resolved by that very call,
\* with no set() call, and registers nothing in the waiter list.
FastPathNoSuspend ==
    /\ [][\A w \in Waits : (isSet /\ wstate[w] = "idle" /\ wstate'[w] # "idle") =>
            /\ wstate'[w] = "resolved"
            /\ waitResolvers' = waitResolvers
            /\ setCount' = setCount]_vars
    /\ [](\A w \in fastPath : Woken(w) /\ ~SlowPath(w) /\ wakeCount[w] = 0)

\* a wait() on an event constructed set has resumed and set() was never called
FastPathNoSuspendWitness ==
    /\ setCount = 0
    /\ \E w \in fastPath : wstate[w] = "resumed"

\* C8: a wait() issued while the event is clear suspends, and only a set()
\* call made after it resolves it; so after set() and clear() a wait()
\* stays unresolved until the next set().
ReArm ==
    /\ [][\A w \in Waits : (~isSet /\ wstate[w] = "idle" /\ wstate'[w] # "idle") =>
            wstate'[w] = "pending"]_vars
    /\ [][\A w \in Waits : (wstate[w] = "pending" /\ wstate'[w] # "pending") =>
            SetStep]_vars
    /\ [](\A w \in Waits : (SlowPath(w) /\ Woken(w)) => wokenAt[w] > issuedAt[w])

\* a wait() issued after a set() and a clear() was suspended and the next
\* set() resolved it
ReArmWitness ==
    \E w \in Waits :
        /\ SlowPath(w)
        /\ issuedAt[w] >= 1
        /\ Woken(w)
        /\ wokenAt[w] = issuedAt[w] + 1

\* C9: set() on an event that is already set changes nothing and wakes
\* nobody, and no wait() is ever woken more than once.
IdempotentSet ==
    /\ [][(isSet /\ SetStep) =>
            UNCHANGED <<isSet, waitResolvers, wstate, wakeCount, wokenAt,
                        wakeOrder, jobs>>]_vars
    /\ [](\A w \in Waits : wakeCount[w] <= 1)

\* set() was called on a set event after an earlier set() had woken a waiter
IdempotentSetWitness ==
    /\ setsWhileSet >= 1
    /\ \E w \in Waits : wakeCount[w] = 1

\* the waits of a sequence that registered a resolver
SlowOnly(seq) == SelectSeq(seq, SlowPath)

\* C10: set() calls the registered resolvers in registration order and
\* removes each from the list, so the woken waiters are queued to resume,
\* and resume, in registration order.
FifoWakeOrder ==
    /\ [][SetStep =>
            /\ jobs' = jobs \o WaiterJobs(waitResolvers)
            /\ wakeOrder' = wakeOrder \o waitResolvers
            /\ waitResolvers' = <<>>]_vars
    /\ [](/\ IsPrefix(wakeOrder, regOrder)
          /\ IsPrefix(SlowOnly(resumeOrder), regOrder))

\* two waiters that registered against the order of their numbers were woken
\* by one set() and have both resumed
FifoWakeOrderWitness ==
    /\ Len(regOrder) >= 2
    /\ regOrder[1] > regOrder[2]
    /\ wokenAt[regOrder[1]] = wokenAt[regOrder[2]]
    /\ wstate[regOrder[1]] = "resumed"
    /\ wstate[regOrder[2]] = "resumed"

\* the level the constructor's argument gives: `set = false` by default
InitialLevel == ctorArg = "true"

\* C11: isSet is the level the most recent set() or clear() call gave, or the
\* constructor's level (clear by default) when there was none, and wait()
\* does not change it.
LevelStateMachine ==
    /\ [](isSet = CASE lastLevelOp = "set" -> TRUE
                    [] lastLevelOp = "clear" -> FALSE
                    [] OTHER -> InitialLevel)
    /\ [][WaitStep => isSet' = isSet]_vars

\* a default-constructed event was set and cleared again, and a wait()
\* issued since then is suspended
LevelStateMachineWitness ==
    /\ ctorArg = "undefined"
    /\ setCount >= 1
    /\ lastLevelOp = "clear"
    /\ \E w \in Waits : issuedAt[w] >= 1 /\ wstate[w] = "pending"

\* C13: clear() changes only isSet: it removes and wakes no waiter and undoes
\* no wake. A woken waiter that has not resumed keeps its queued resumption,
\* and a suspended waiter keeps its resolver in the list.
ClearFrame ==
    /\ [][ClearStep =>
            /\ ~isSet'
            /\ UNCHANGED <<waitResolvers, wstate, wakeCount, wokenAt,
                           wakeOrder, jobs>>]_vars
    /\ [](\A w \in Waits : wstate[w] = "resolved" => WaiterJob(w) \in Range(jobs))
    /\ [](\A w \in Waits : wstate[w] = "pending" => w \in Range(waitResolvers))

\* clear() was just called while one waiter, woken by set(), had not resumed
\* and another, suspended on the clear event, was registered
ClearFrameWitness ==
    /\ lastOp = "clear"
    /\ \E w \in Waits : SlowPath(w) /\ wstate[w] = "resolved"
    /\ \E w \in Waits : wstate[w] = "pending"

\* C17: a set() call ends having called the resolver of exactly the waits
\* registered before it, once each. A wait() that a woken waiter issues while
\* isSet is still true is resolved by that call and never registered, so it
\* is neither drained nor left suspended.
DrainAndReentrantWait ==
    /\ [][SetStep =>
            /\ waitResolvers' = <<>>
            /\ \A w \in Waits :
                 wakeCount'[w] = wakeCount[w] +
                     (IF w \in Range(waitResolvers) THEN 1 ELSE 0)]_vars
    /\ [][\A w, v \in Waits :
            (isSet /\ <<w, v>> \notin reentrant /\ <<w, v>> \in reentrant') =>
                /\ wstate'[v] = "resolved"
                /\ v \in fastPath'
                /\ waitResolvers' = waitResolvers]_vars
    /\ [](\A pr \in reentrant : pr[2] \in fastPath =>
            /\ Woken(pr[2])
            /\ ~SlowPath(pr[2])
            /\ wakeCount[pr[2]] = 0)

\* a waiter woken by set() resumed and issued a wait() while the event was
\* still set after that same set(); the second wait() has resumed too
DrainAndReentrantWaitWitness ==
    \E pr \in reentrant :
        /\ SlowPath(pr[1])
        /\ pr[2] \in fastPath
        /\ wokenAt[pr[1]] = issuedAt[pr[2]]
        /\ wstate[pr[2]] = "resumed"

\* the resolver of wait() w has not been called
Unwoken(w) == wakeCount[w] = 0

\* C19: between operations the waiter list is exactly the waits that were
\* issued while the event was clear and have not been woken since, in issue
\* order, each once, and none that took the fast path.
WaiterAccounting ==
    /\ waitResolvers = SelectSeq(regOrder, Unwoken)
    /\ \A i, j \in 1..Len(waitResolvers) :
         i # j => waitResolvers[i] # waitResolvers[j]
    /\ Range(waitResolvers) \cap fastPath = {}
    /\ \A w \in Range(waitResolvers) : wstate[w] = "pending"

\* the list holds a suspended wait() while an earlier one was woken and
\* another took the fast path
WaiterAccountingWitness ==
    /\ waitResolvers # <<>>
    /\ \E w \in Waits : SlowPath(w) /\ Woken(w)
    /\ fastPath # {}

(***************************************************************************)
(* Properties of AsyncLock                                                 *)
(***************************************************************************)

\* C1: at most one acquirer is between the resolution of its acquire() and
\* its matching release(), in every reachable state.
MutualExclusion == Cardinality(Holders) <= 1

\* one acquirer holds the lock after another has released it, a third waits
MutualExclusionWitness ==
    \E i, j, k \in Acquirers :
        /\ relCount[i] >= 1
        /\ Holding(j)
        /\ pc[k] = "awaiting"

\* C2: acquirers are granted the lock in the order in which the synchronous
\* prefixes of their acquire() calls ran: the grants so far are a prefix of
\* the issues so far.
FifoGrantOrder == IsPrefix(grantOrder, issueOrder)

\* the second grant went to an acquirer issued while `locked` read false
\* and an earlier acquirer was still pending
FifoGrantOrderWitness ==
    /\ Len(grantOrder) >= 2
    /\ grantOrder[2] \in raced

\* C3: under fair scheduling, with every holder releasing, every acquire()
\* that was issued is eventually granted.
AcquireEventuallyGranted ==
    \A k \in Acquirers : (pc[k] = "awaiting") ~> Granted(k)

\* every acquirer was granted, all but the first after queueing behind a
\* pending one
AcquireEventuallyGrantedWitness ==
    /\ \A k \in Acquirers : Granted(k)
    /\ Cardinality(raced) = NumAcquirers - 1

\* C4: an acquirer is granted only when every acquirer issued ahead of it
\* has called release().
HandOffPrecedence ==
    \A k \in Acquirers : Granted(k) =>
        \A j \in Acquirers : IssuedBefore(j, k) => relCount[j] >= 1

\* an acquirer stays suspended, with no microtask pending, behind a holder
\* that has its handle and has not released
HandOffPrecedenceWitness ==
    \E j, k \in Acquirers :
        /\ pc[j] = "resumed"
        /\ relCount[j] = 0
        /\ IssuedBefore(j, k)
        /\ pc[k] = "awaiting"
        /\ jobs = <<>>

\* a step in which acquirer k's release closure is called, is granted
ReleaseCall(k) == relCount'[k] = relCount[k] + 1
GrantStep(k) == ~Granted(k) /\ Granted(k)'

\* C12: `locked` is false on a fresh lock, a grant sets it and a release
\* clears it; while no handle has been released twice, `locked` is true
\* whenever an acquirer is between its grant and its release.
LockedFlag ==
    /\ [](issueOrder = <<>> => ~locked)
    /\ [][\A k \in Acquirers : GrantStep(k) => locked']_vars
    /\ [][\A k \in Acquirers : ReleaseCall(k) => ~locked']_vars
    /\ []((\A k \in Acquirers : relCount[k] <= 1) => (Holders # {} => locked))

\* the second acquirer holds the lock, `locked` reads true, after the first
\* released its handle once
LockedFlagWitness ==
    /\ \A k \in Acquirers : relCount[k] <= 1
    /\ Len(grantOrder) >= 2
    /\ relCount[grantOrder[1]] = 1
    /\ Holding(grantOrder[2])
    /\ locked

\* what one call of acquirer k's release() makes of the lock: the flag is
\* cleared, k's link is resolved and the acquirers suspended on it are queued
ReleaseEffect(k) ==
    /\ locked' = FALSE
    /\ settled' = settled \cup {k}
    /\ jobs' = jobs \o AcquireJobs(reactions[k])
    /\ reactions' = [reactions EXCEPT ![k] = <<>>]
    /\ UNCHANGED <<awaitable, previousAwaitable, pc>>

\* C14: disposing a granted handle is the same operation as release() on it:
\* from any state, either call leaves the lock in the one state ReleaseEffect
\* describes.
DisposeIsRelease ==
    [][\A k \in Acquirers :
         /\ (ReleaseCall(k) /\ lastCall' = "dispose") => ReleaseEffect(k)
         /\ (ReleaseCall(k) /\ lastCall' = "release") => ReleaseEffect(k)]_vars

\* the only release so far was a dispose of the holder's handle, and the
\* acquirer queued behind it is now scheduled to resume
DisposeIsReleaseWitness ==
    \E k, j \in Acquirers :
        /\ lastCall = "dispose"
        /\ relCount[k] = 1
        /\ \A i \in Acquirers \ {k} : relCount[i] = 0
        /\ ~locked
        /\ k \in settled
        /\ previousAwaitable[j] = k
        /\ AcquireJob(j) \in Range(jobs)

\* C15: acquire() captures the tail and installs its own link in one step, so
\* no two calls capture the same link and the acquisitions form one chain in
\* issue order: each captured the link of the call issued just before it,
\* and the tail is the link of the last call.
LinearChain ==
    /\ \A i \in 1..Len(issueOrder) :
         previousAwaitable[issueOrder[i]] =
             IF i = 1 THEN 0 ELSE issueOrder[i - 1]
    /\ awaitable = IF issueOrder = <<>> THEN 0 ELSE issueOrder[Len(issueOrder)]
    /\ \A j, k \in Range(issueOrder) :
         j # k => previousAwaitable[j] # previousAwaitable[k]
    /\ \A p \in Promises : Len(reactions[p]) <= 1

\* every acquirer issued its acquire() before any was granted
LinearChainWitness ==
    /\ Len(issueOrder) = NumAcquirers
    /\ NumAcquirers >= 2
    /\ grantOrder = <<>>

\* every acquire() issued so far has been granted and released
LockFree == \A k \in Range(issueOrder) : Granted(k) /\ relCount[k] >= 1

\* C16: on a free lock, a fresh one included, the chain tail is resolved, and
\* an acquire() whose predecessors have all released needs no further
\* release(): its grant is already queued as a microtask.
AvailableWhenFree ==
    /\ LockFree => awaitable \in settled
    /\ \A k \in Acquirers :
         (/\ pc[k] = "awaiting"
          /\ \A j \in Acquirers : IssuedBefore(j, k) => relCount[j] >= 1)
         => AcquireJob(k) \in Range(jobs)

\* an acquire() issued on a lock that earlier holders had released found the
\* tail resolved and was granted, each earlier handle released just once
AvailableWhenFreeWitness ==
    \E k \in issuedFree :
        /\ previousAwaitable[k] # 0
        /\ Holding(k)
        /\ \A j \in Acquirers : IssuedBefore(j, k) => relCount[j] = 1

\* C18: a second or later call of a handle's release (or dispose) only sets
\* `locked` to false: the chain, the suspended acquirers and the microtask
\* queue stay as they are, nobody is granted, and mutual exclusion and the
\* FIFO grant order hold with such calls.
RepeatedRelease ==
    /\ [][\A k \in Acquirers : (relCount[k] >= 1 /\ ReleaseCall(k)) =>
            /\ locked' = FALSE
            /\ UNCHANGED <<awaitable, settled, reactions, previousAwaitable,
                           pc, jobs, grantOrder>>]_vars
    /\ [](Cardinality(Holders) <= 1 /\ IsPrefix(grantOrder, issueOrder))

\* a handle was released twice; the second call came while the next acquirer
\* held the lock, so `locked` reads false under a holder, and a third
\* acquirer is still suspended
RepeatedReleaseWitness ==
    \E k, j, i \in Acquirers :
        /\ relCount[k] >= 2
        /\ Holding(j)
        /\ ~locked
        /\ pc[i] = "awaiting"
        /\ AcquireJob(i) \notin Range(jobs)

\* C20: the release closure reaches the caller only in the value acquire()
\* returns after its await, so a link is resolved, and a handle released,
\* only for an acquirer that has been granted the lock.
HandleAfterGrant ==
    \A k \in Acquirers : (k \in settled \/ relCount[k] >= 1) => Granted(k)

\* the link of an acquirer that had queued behind a pending one is resolved,
\* after its grant, while a later acquirer, its link unresolved, is suspended
HandleAfterGrantWitness ==
    \E k, i \in Acquirers :
        /\ k \in raced
        /\ k \in settled
        /\ pc[i] = "awaiting"
        /\ i \notin settled

====
